---------------------------- MODULE Spec2Model ----------------------------
(***************************************************************************)
(* rabbitspy: a terminal monitor for RabbitMQ.                             *)
(*                                                                         *)
(* src/main.go holds three programs (three `package main` sections):       *)
(*   - lines   1-134: the tabwriter sampler (polls /api/queues, prints);   *)
(*   - lines 136-445: the Bubble Tea monitor (select queues, consume them, *)
(*                    show the received messages);                         *)
(*   - lines 447-594: the coloured sampler (same loop, coloured output).   *)
(*                                                                         *)
(* Spec        is the monitor: its event loop (Update/View), the           *)
(*             startMonitoring loop and one consumeQueue goroutine per     *)
(*             started queue, with the broker as the environment.          *)
(* SamplerSpec is the sampler main loop of the two sampler programs, with  *)
(*             the management API as the environment.                      *)
(***************************************************************************)
EXTENDS Integers, Sequences, FiniteSets, TLC

VARIABLES
    \* ---- monitor (src/main.go:136-445) ----
    exited,      \* process status: "running", "quit", "fatal" (log.Fatalf), "crash" (runtime fatal error)
    queueList,   \* model.queueList / list items: the names fetchQueueNames returned
    cursor,      \* m.list.Index(), 1-based
    selected,    \* model.selected: set of list indices
    queues,      \* model.queues: names to monitor, in the order Enter appended them
    monitoring,  \* model.monitoring
    quitting,    \* model.quitting
    loop,        \* where the event loop is: "idle", or inside startMonitoring: "connect", "declare"
    smIdx,       \* startMonitoring's position in `for _, queueName := range m.queues`
    channel,     \* model.channel: "nil", "open", "closed"
    pc,          \* per index of queues: the state of that queue's consumeQueue goroutine
    got,         \* per index of queues: the slice append(...) computed, not yet stored in the map
    messages,    \* model.messages: queue name -> sequence of formatted messages
    delivered,   \* history: queue name -> bodies received on that name's subscriptions, in receipt order
    view,        \* what the last View() call read
    tickArmed,   \* a tea.Tick command is pending
    \* ---- sampler (src/main.go:90-134 and 553-594) ----
    spc,         \* position of main
    hung,        \* the management endpoint will never answer the request in flight
    status,      \* HTTP status of the last response (0: none)
    sQueues,     \* `queues` returned by getQueues
    err,         \* `err` returned by getQueues
    screen,      \* the rows last printed
    exitCode,    \* -1 while running, else the process exit code
    fails,       \* history: consecutive failed sampling calls (saturating)
    \* ---- alert evaluator (design section 4.2; its code is not in src/) ----
    now,         \* the clock
    lastAlert,   \* AlertState.lastAlertTimestamp
    decision,    \* the last AlertDecision: "none" before any, "raise", "suppress"
    alertSnap    \* the queue names of the snapshot last evaluated

monitorVars == <<exited, queueList, cursor, selected, queues, monitoring, quitting,
                 loop, smIdx, channel, pc, got, messages, delivered, view, tickArmed>>
samplerVars == <<spc, hung, status, sQueues, err, screen, exitCode, fails>>
alertVars == <<now, lastAlert, decision, alertSnap>>
vars == <<monitorVars, samplerVars, alertVars>>

(***************************************************************************)
(* Bounds and input sets                                                   *)
(***************************************************************************)
\* total number of messages the broker delivers in one run
MaxDeliveries == 2
\* cap of the consecutive-failure history counter
MaxFails == 3
\* the last instant of the alert evaluator's clock
MaxTime == 8

QueueNames == {"q1", "q2"}
Bodies == {"a", "b"}
\* lists /api/queues can return (names without their virtual host: the same
\* name can appear twice)
QueueLists == {<<"q1">>, <<"q1", "q2">>, <<"q2", "q2">>}

Min(a, b) == IF a < b THEN a ELSE b

RECURSIVE SetToSeqs(_)
\* every ordering of a finite set (Go iterates a map in an unspecified order)
SetToSeqs(S) ==
    IF S = {} THEN {<<>>}
    ELSE UNION {{<<x>> \o s : s \in SetToSeqs(S \ {x})} : x \in S}


RECURSIVE TotalLen(_, _)
\* the summed length of the sequences f[n], n in S
TotalLen(f, S) ==
    IF S = {} THEN 0
    ELSE LET n == CHOOSE x \in S : TRUE
         IN  Len(f[n]) + TotalLen(f, S \ {n})

\* AlertState.cooldownDuration, in clock units (the design fixes no value)
Cooldown == 3

(***************************************************************************)
(* The monitor, src/main.go:136-445                                        *)
(***************************************************************************)

\* fmt.Sprintf("[%s] Received message: %s", queueName, d.Body): the text
\* carries the queue name and the body
FormatMsg(queueName, body) == <<queueName, body>>

Running == exited = "running"

\* initialModel: nothing selected, not monitoring, an empty message map;
\* Init() arms the first tick
Init ==
    /\ exited = "running"
    /\ queueList \in QueueLists
    /\ cursor = 1
    /\ selected = {}
    /\ queues = <<>>
    /\ monitoring = FALSE
    /\ quitting = FALSE
    /\ loop = "idle"
    /\ smIdx = 0
    /\ channel = "nil"
    /\ pc = <<>>
    /\ got = <<>>
    /\ messages = [n \in QueueNames |-> <<>>]
    /\ delivered = [n \in QueueNames |-> <<>>]
    /\ view = "none"
    /\ tickArmed = TRUE
    /\ spc = "loadConfig"
    /\ hung = FALSE
    /\ status = 0
    /\ sQueues = <<>>
    /\ err = "nil"
    /\ screen = <<>>
    /\ exitCode = -1
    /\ fails = 0
    /\ now = 0
    /\ lastAlert = 0 - Cooldown
    /\ decision = "none"
    /\ alertSnap = <<>>

\* the event loop is free to take the next message
LoopIdle == Running /\ loop = "idle" /\ ~quitting

\* what View() returns when no write overlaps its read of m.messages
ViewResult(isQuitting, isMonitoring) ==
    IF isQuitting THEN "exiting"
    ELSE IF isMonitoring THEN "messages" ELSE "list"

\* Update, case "ctrl+c", "q": m.quitting = true, return tea.Quit; the view
\* rendered after this Update is "Exiting..."
KeyQuit ==
    /\ LoopIdle
    /\ quitting' = TRUE
    /\ view' = ViewResult(TRUE, monitoring)
    /\ UNCHANGED <<exited, queueList, cursor, selected, queues, monitoring, loop,
                   smIdx, channel, pc, got, messages, delivered, tickArmed>>
    /\ UNCHANGED <<samplerVars, alertVars>>

\* tea.Quit is processed: p.Run returns, main returns, the process (and every
\* goroutine in it) ends
ProgramExit ==
    /\ Running /\ quitting
    /\ exited' = "quit"
    /\ UNCHANGED <<queueList, cursor, selected, queues, monitoring, quitting, loop,
                   smIdx, channel, pc, got, messages, delivered, view, tickArmed>>
    /\ UNCHANGED <<samplerVars, alertVars>>

\* Update, case " ": toggle the index under the cursor (whether or not
\* monitoring has started)
KeySpace ==
    /\ LoopIdle
    /\ selected' = IF cursor \in selected THEN selected \ {cursor}
                   ELSE selected \cup {cursor}
    /\ UNCHANGED <<exited, queueList, cursor, queues, monitoring, quitting, loop,
                   smIdx, channel, pc, got, messages, delivered, view, tickArmed>>
    /\ UNCHANGED <<samplerVars, alertVars>>

\* any other key falls through to m.list.Update(msg): the list moves its cursor
KeyMove ==
    /\ LoopIdle
    /\ \E c \in {cursor - 1, cursor + 1} :
          /\ c \in 1..Len(queueList)
          /\ cursor' = c
    /\ UNCHANGED <<exited, queueList, selected, queues, monitoring, quitting, loop,
                   smIdx, channel, pc, got, messages, delivered, view, tickArmed>>
    /\ UNCHANGED <<samplerVars, alertVars>>

\* the names `for i := range m.selected` appends to m.queues, in one of the
\* orders the map iteration can take
SelectedNames(sel) ==
    {[i \in 1..Len(order) |-> queueList[order[i]]] : order \in SetToSeqs(sel)}

\* Update, case "enter" with !m.monitoring: m.queues is filled from the
\* selection and startMonitoring is entered (the event loop stays inside it)
KeyEnter ==
    /\ LoopIdle
    /\ ~monitoring
    /\ \E names \in SelectedNames(selected) :
          /\ queues' = queues \o names
          /\ pc' = [i \in 1..Len(queues \o names) |-> "pending"]
          /\ got' = [i \in 1..Len(queues \o names) |-> <<>>]
    /\ loop' = "connect"
    /\ UNCHANGED <<exited, queueList, cursor, selected, monitoring, quitting,
                   smIdx, channel, messages, delivered, view, tickArmed>>
    /\ UNCHANGED <<samplerVars, alertVars>>

\* mutant: Enter is not guarded by !m.monitoring: the current selection is
\* appended to m.queues and startMonitoring is entered again
KeyEnterAgain_Restart ==
    /\ LoopIdle
    /\ monitoring
    /\ \E names \in SelectedNames(selected) :
          /\ queues' = queues \o names
          /\ pc' = pc \o [i \in 1..Len(names) |-> "pending"]
          /\ got' = got \o [i \in 1..Len(names) |-> <<>>]
    /\ loop' = "connect"
    /\ UNCHANGED <<exited, queueList, cursor, selected, monitoring, quitting,
                   smIdx, channel, messages, delivered, view, tickArmed>>
    /\ UNCHANGED <<samplerVars, alertVars>>

\* Update, case "enter" with m.monitoring: nothing happens
KeyEnterAgain ==
    /\ LoopIdle
    /\ monitoring
    /\ UNCHANGED <<monitorVars, alertVars>>
    /\ UNCHANGED <<samplerVars, alertVars>>

\* startMonitoring, connectRabbitMQ: on error startMonitoring returns it and
\* Update calls log.Fatalf
Connect ==
    /\ Running /\ loop = "connect"
    /\ \/ /\ channel' = "open"
          /\ loop' = "declare"
          /\ smIdx' = 1
          /\ UNCHANGED exited
       \/ /\ exited' = "fatal"
          /\ UNCHANGED <<channel, loop, smIdx>>
    /\ UNCHANGED <<queueList, cursor, selected, queues, monitoring, quitting,
                   pc, got, messages, delivered, view, tickArmed>>
    /\ UNCHANGED <<samplerVars, alertVars>>

\* startMonitoring, `if err != nil` after QueueDeclarePassive: with the channel
\* closed it returns an error (Update then calls log.Fatalf), otherwise it
\* moves on to the next queue (`continue`) without starting a goroutine
AfterDeclareError(isClosed) == IF isClosed THEN "fatal" ELSE "skipped"

\* startMonitoring, one iteration of the loop over m.queues: the passive
\* declare succeeds (go m.consumeQueue), fails with the channel still open,
\* or fails with the channel closed (it was closed, or the failure closes it)
Declare ==
    /\ Running /\ loop = "declare" /\ smIdx <= Len(queues)
    /\ \/ /\ channel = "open"
          /\ pc' = [pc EXCEPT ![smIdx] = "consume"]
          /\ smIdx' = smIdx + 1
          /\ UNCHANGED <<exited, channel>>
       \/ \E closedNow \in (IF channel = "open" THEN {TRUE, FALSE} ELSE {TRUE}) :
             /\ channel' = IF closedNow THEN "closed" ELSE channel
             /\ IF AfterDeclareError(closedNow) = "fatal"
                  THEN /\ exited' = "fatal"
                       /\ UNCHANGED <<pc, smIdx>>
                  ELSE /\ pc' = [pc EXCEPT ![smIdx] = AfterDeclareError(closedNow)]
                       /\ smIdx' = smIdx + 1
                       /\ UNCHANGED exited
    /\ UNCHANGED <<queueList, cursor, selected, queues, monitoring, quitting, loop,
                   got, messages, delivered, view, tickArmed>>
    /\ UNCHANGED <<samplerVars, alertVars>>

\* startMonitoring returns nil: Update sets m.monitoring = true and returns
StartMonitoringDone ==
    /\ Running /\ loop = "declare" /\ smIdx > Len(queues)
    /\ monitoring' = TRUE
    /\ loop' = "idle"
    /\ UNCHANGED <<exited, queueList, cursor, selected, queues, quitting,
                   smIdx, channel, pc, got, messages, delivered, view, tickArmed>>
    /\ UNCHANGED <<samplerVars, alertVars>>

\* Update, case tickMsg: a new tick is scheduled only while monitoring;
\* otherwise the message goes to m.list.Update, which schedules none
Tick ==
    /\ LoopIdle
    /\ tickArmed
    /\ tickArmed' = monitoring
    /\ UNCHANGED <<exited, queueList, cursor, selected, queues, monitoring, quitting,
                   loop, smIdx, channel, pc, got, messages, delivered, view>>
    /\ UNCHANGED <<samplerVars, alertVars>>

\* a consumeQueue goroutine is between reading m.messages[queueName] and
\* storing the appended slice back: its map write can overlap another access
WriterActive(others) == \E t \in DOMAIN pc \ others : pc[t] = "append"

\* View: `for queue, msgs := range m.messages` with no lock.  When no
\* goroutine is writing the map the read is consistent.  When it overlaps a
\* write, Go leaves the outcome open: the read may still be consistent, may
\* see a half-written entry, or the runtime may stop the process ("concurrent
\* map iteration and map write").
View ==
    /\ LoopIdle
    /\ \/ /\ view' = ViewResult(quitting, monitoring)
          /\ UNCHANGED exited
       \/ /\ WriterActive({})
          /\ view' = "partial"
          /\ UNCHANGED exited
       \/ /\ WriterActive({})
          /\ exited' = "crash"
          /\ UNCHANGED view
    /\ UNCHANGED <<queueList, cursor, selected, queues, monitoring, quitting, loop,
                   smIdx, channel, pc, got, messages, delivered, tickArmed>>
    /\ UNCHANGED <<samplerVars, alertVars>>

(***************************************************************************)
(* consumeQueue, one goroutine per started queue (index t of m.queues)     *)
(***************************************************************************)

\* mutant: a failed Consume always ends the goroutine
AfterConsumeError_AlwaysStop(isClosed) == "stopped"

\* mutant: a failed Consume never ends the goroutine
AfterConsumeError_AlwaysRetry(isClosed) == "sleep"

\* consumeQueue, `if err != nil` after Consume: return when the channel is
\* closed, else sleep 5 s and try again
AfterConsumeError(isClosed) == IF isClosed THEN "stopped" ELSE "sleep"

\* consumeQueue, after `for d := range msgs` ends: sleep 5 s, then loop
AfterStreamEnd == "sleep"

\* m.channel.Consume: succeeds only on an open channel; can fail on an open
\* one; always fails on a closed one
Consume(t) ==
    /\ Running /\ pc[t] = "consume"
    /\ \/ /\ channel = "open"
          /\ pc' = [pc EXCEPT ![t] = "recv"]
       \/ pc' = [pc EXCEPT ![t] = AfterConsumeError(channel = "closed")]
    /\ UNCHANGED <<exited, queueList, cursor, selected, queues, monitoring, quitting,
                   loop, smIdx, channel, got, messages, delivered, view, tickArmed>>
    /\ UNCHANGED <<samplerVars, alertVars>>

\* `for d := range msgs` receives a delivery; the goroutine formats it and
\* reads m.messages[queueName] to append to it
Receive(t) ==
    /\ Running /\ pc[t] = "recv"
    /\ channel = "open"
    /\ TotalLen(delivered, QueueNames) < MaxDeliveries
    /\ \E body \in Bodies :
          /\ got' = [got EXCEPT ![t] =
                        Append(messages[queues[t]], FormatMsg(queues[t], body))]
          /\ delivered' = [delivered EXCEPT ![queues[t]] = Append(@, body)]
    /\ pc' = [pc EXCEPT ![t] = "append"]
    /\ UNCHANGED <<exited, queueList, cursor, selected, queues, monitoring, quitting,
                   loop, smIdx, channel, messages, view, tickArmed>>
    /\ UNCHANGED <<samplerVars, alertVars>>

\* m.messages[queueName] = append(...): the map write, with no lock.  Alone it
\* stores the slice.  Overlapping another goroutine's map write, Go leaves the
\* outcome open: the store may succeed, may be lost, or the runtime may stop
\* the process ("concurrent map writes").
Store(t) ==
    /\ Running /\ pc[t] = "append"
    /\ \/ /\ messages' = [messages EXCEPT ![queues[t]] = got[t]]
          /\ UNCHANGED exited
       \/ /\ WriterActive({t})
          /\ UNCHANGED <<messages, exited>>
       \/ /\ WriterActive({t})
          /\ exited' = "crash"
          /\ UNCHANGED messages
    /\ pc' = [pc EXCEPT ![t] = "recv"]
    /\ got' = [got EXCEPT ![t] = <<>>]
    /\ UNCHANGED <<queueList, cursor, selected, queues, monitoring, quitting,
                   loop, smIdx, channel, delivered, view, tickArmed>>
    /\ UNCHANGED <<samplerVars, alertVars>>

\* the delivery channel is closed (the consumer was cancelled, the queue
\* deleted, or the AMQP channel closed): the range loop ends
StreamEnd(t) ==
    /\ Running /\ pc[t] = "recv"
    /\ pc' = [pc EXCEPT ![t] = AfterStreamEnd]
    /\ UNCHANGED <<exited, queueList, cursor, selected, queues, monitoring, quitting,
                   loop, smIdx, channel, got, messages, delivered, view, tickArmed>>
    /\ UNCHANGED <<samplerVars, alertVars>>

\* time.Sleep(5 * time.Second) returns: back to the top of the loop
Wake(t) ==
    /\ Running /\ pc[t] = "sleep"
    /\ pc' = [pc EXCEPT ![t] = "consume"]
    /\ UNCHANGED <<exited, queueList, cursor, selected, queues, monitoring, quitting,
                   loop, smIdx, channel, got, messages, delivered, view, tickArmed>>
    /\ UNCHANGED <<samplerVars, alertVars>>

\* the broker (or the network) closes the AMQP channel
ChannelCloses ==
    /\ Running /\ channel = "open"
    /\ channel' = "closed"
    /\ UNCHANGED <<exited, queueList, cursor, selected, queues, monitoring, quitting,
                   loop, smIdx, pc, got, messages, delivered, view, tickArmed>>
    /\ UNCHANGED <<samplerVars, alertVars>>

\* the steps of the consumeQueue goroutines, for whichever goroutine takes one
TaskConsume == \E t \in DOMAIN pc : Consume(t)
TaskReceive == \E t \in DOMAIN pc : Receive(t)
TaskStore == \E t \in DOMAIN pc : Store(t)
TaskStreamEnd == \E t \in DOMAIN pc : StreamEnd(t)
TaskWake == \E t \in DOMAIN pc : Wake(t)

Next ==
    \/ KeyQuit \/ ProgramExit \/ KeySpace \/ KeyMove \/ KeyEnter \/ KeyEnterAgain
    \/ Connect \/ Declare \/ StartMonitoringDone \/ Tick \/ View
    \/ ChannelCloses
    \/ TaskConsume \/ TaskReceive \/ TaskStore \/ TaskStreamEnd \/ TaskWake

Spec == Init /\ [][Next]_vars

\* the indices m.queues can have
TaskIds == UNION {DOMAIN l : l \in QueueLists}

\* a step of the consumeQueue goroutine started for index t
Task(t) ==
    /\ t \in DOMAIN pc
    /\ (Consume(t) \/ Receive(t) \/ Store(t) \/ StreamEnd(t) \/ Wake(t))

\* the Go scheduler runs every goroutine that can take a step
FairSpec == Spec /\ \A t \in TaskIds : WF_vars(Task(t))

(***************************************************************************)
(* The sampler, src/main.go:61-134 (tabwriter) and 506-594 (coloured): the *)
(* two programs have the same main loop and the same getQueues             *)
(***************************************************************************)

QOrders == [name |-> "orders", vhost |-> "/", messages |-> 5, ready |-> 3, unack |-> 2]
QError == [name |-> "payments-error", vhost |-> "prod", messages |-> 120, ready |-> 100, unack |-> 20]

\* queue lists the management API can return
SnapshotLists == {<<>>, <<QOrders>>, <<QError>>, <<QOrders, QError>>, <<QError, QOrders>>}

\* response bodies: a JSON array of queue objects, the JSON value null, a
\* JSON object (RabbitMQ's error replies), or text that is not JSON
ResponseBodies ==
    {[kind |-> "array", rows |-> l] : l \in SnapshotLists}
    \cup {[kind |-> k, rows |-> <<>>] : k \in {"null", "object", "malformed"}}

StatusCodes == {200, 401, 500}

Is2xx(code) == code >= 200 /\ code <= 299

\* json.Unmarshal(body, &queues) with queues a []QueueInfo: an array decodes
\* to its elements, null to a nil slice, anything else is an error
JsonUnmarshal(body) ==
    CASE body.kind = "array" -> [queues |-> body.rows, err |-> "nil"]
      [] body.kind = "null"  -> [queues |-> <<>>, err |-> "nil"]
      [] OTHER               -> [queues |-> <<>>, err |-> "decode"]

\* getQueues once client.Do has returned a response: the body is read and
\* decoded; resp.StatusCode is not looked at
GetQueuesDecode(code, body) == JsonUnmarshal(body)

\* one printed row: identity (vhost + "/" + name), ready, unacked, total
Row(q) == [host |-> <<q.vhost, q.name>>, ready |-> q.ready,
           unacked |-> q.unack, total |-> q.messages]

\* the rows printed by `for _, queue := range queues`
RenderRows(qs) == [i \in 1..Len(qs) |-> Row(qs[i])]

SRunning == exitCode = -1

\* failOnError(err, msg): log.Fatalf, which exits with status 1
FailOnError == 1

\* main: loadConfig, then failOnError
SLoadConfig ==
    /\ SRunning /\ spc = "loadConfig"
    /\ \/ spc' = "dial" /\ UNCHANGED exitCode
       \/ exitCode' = FailOnError /\ UNCHANGED spc
    /\ UNCHANGED <<hung, status, sQueues, err, screen, fails>>
    /\ UNCHANGED <<monitorVars, alertVars>>

\* main: amqp.Dial, then failOnError
SDial ==
    /\ SRunning /\ spc = "dial"
    /\ \/ spc' = "channel" /\ UNCHANGED exitCode
       \/ exitCode' = FailOnError /\ UNCHANGED spc
    /\ UNCHANGED <<hung, status, sQueues, err, screen, fails>>
    /\ UNCHANGED <<monitorVars, alertVars>>

\* mutant: a failure to open the channel is acted on only after main has
\* entered the sampling loop
SChannel_FailLate ==
    /\ SRunning /\ spc = "channel"
    /\ \/ spc' = "getQueues" /\ UNCHANGED exitCode
       \/ exitCode' = FailOnError /\ spc' = "getQueues"
    /\ UNCHANGED <<hung, status, sQueues, err, screen, fails>>
    /\ UNCHANGED <<monitorVars, alertVars>>

\* main: conn.Channel, then failOnError
SChannel ==
    /\ SRunning /\ spc = "channel"
    /\ \/ spc' = "getQueues" /\ UNCHANGED exitCode
       \/ exitCode' = FailOnError /\ UNCHANGED spc
    /\ UNCHANGED <<hung, status, sQueues, err, screen, fails>>
    /\ UNCHANGED <<monitorVars, alertVars>>

\* getQueues: the request is built and client.Do(req) is entered, on an
\* http.Client{} with no Timeout
SSend ==
    /\ SRunning /\ spc = "getQueues"
    /\ spc' = "awaiting"
    /\ UNCHANGED <<hung, status, sQueues, err, screen, exitCode, fails>>
    /\ UNCHANGED <<monitorVars, alertVars>>

\* the management endpoint accepts the request and never answers it
SHang ==
    /\ SRunning /\ spc = "awaiting" /\ ~hung
    /\ hung' = TRUE
    /\ UNCHANGED <<spc, status, sQueues, err, screen, exitCode, fails>>
    /\ UNCHANGED <<monitorVars, alertVars>>

\* getQueues returns: client.Do failed, io.ReadAll failed, or the body was
\* read and decoded
SReply ==
    /\ SRunning /\ spc = "awaiting" /\ ~hung
    /\ \/ /\ status' = 0
          /\ sQueues' = <<>>
          /\ err' = "transport"
       \/ \E code \in StatusCodes :
             /\ status' = code
             /\ sQueues' = <<>>
             /\ err' = "read"
       \/ \E code \in StatusCodes, body \in ResponseBodies :
             /\ status' = code
             /\ sQueues' = GetQueuesDecode(code, body).queues
             /\ err' = GetQueuesDecode(code, body).err
    /\ spc' = "checkErr"
    /\ UNCHANGED <<hung, screen, exitCode, fails>>
    /\ UNCHANGED <<monitorVars, alertVars>>

\* mutant: a failed sampling call is fatal (log.Fatalf instead of log.Printf)
OnSampleError_Fatal ==
    /\ exitCode' = 1
    /\ UNCHANGED <<spc, screen, fails>>

\* main, `if err != nil`: log.Printf, sleep, continue
OnSampleError ==
    /\ spc' = "sleepErr"
    /\ fails' = Min(fails + 1, MaxFails)
    /\ UNCHANGED <<screen, exitCode>>

\* mutant: the new rows are added to the rows of the cycle before
OnSampleOk_Merge ==
    /\ screen' = screen \o RenderRows(sQueues)
    /\ spc' = "sleep"
    /\ fails' = 0
    /\ UNCHANGED exitCode

\* main, the rest of the loop body: print the header and one row per queue,
\* then sleep
OnSampleOk ==
    /\ screen' = RenderRows(sQueues)
    /\ spc' = "sleep"
    /\ fails' = 0
    /\ UNCHANGED exitCode

SCheck ==
    /\ SRunning /\ spc = "checkErr"
    /\ IF err # "nil" THEN OnSampleError ELSE OnSampleOk
    /\ UNCHANGED <<hung, status, sQueues, err>>
    /\ UNCHANGED <<monitorVars, alertVars>>

\* time.Sleep(5 * time.Second) returns: the next iteration calls getQueues
SWake ==
    /\ SRunning /\ spc \in {"sleepErr", "sleep"}
    /\ spc' = "getQueues"
    /\ UNCHANGED <<hung, status, sQueues, err, screen, exitCode, fails>>
    /\ UNCHANGED <<monitorVars, alertVars>>

SamplerNext ==
    \/ SLoadConfig \/ SDial \/ SChannel
    \/ SSend \/ SHang \/ SReply \/ SCheck \/ SWake

SamplerSpec == Init /\ [][SamplerNext]_vars

\* the sampler is a single goroutine that runs whenever it can take a step
SamplerFairSpec == SamplerSpec /\ WF_vars(SamplerNext)

(***************************************************************************)
(* The alert evaluator of the alerting variant (design sections 3 and 4.2). *)
(* go.mod requires the audio library of that variant, but its source is    *)
(* not among the source files: this part follows the design.  A queue name *)
(* is a sequence of characters.                                            *)
(***************************************************************************)

NameOrders == <<"o", "r", "d", "e", "r", "s">>
NameErrorQ == <<"E", "R", "R", "O", "R", "-", "q">>
NamePayError == <<"p", "a", "y", "-", "e", "r", "r", "o", "r">>
NameMyErrors == <<"m", "y", "e", "r", "r", "o", "r", "s">>

\* the snapshots handed to the evaluator, as their lists of queue names
AlertSnapshots ==
    {<<>>, <<NameOrders>>, <<NameOrders, NameErrorQ>>, <<NamePayError>>,
     <<NameMyErrors, NameOrders>>}

\* the literal token "error"
ErrorToken == <<"e", "r", "r", "o", "r">>

\* lower-casing of one character
LowerChar(c) ==
    CASE c = "E" -> "e"
      [] c = "R" -> "r"
      [] c = "O" -> "o"
      [] OTHER   -> c

ToLower(name) == [i \in 1..Len(name) |-> LowerChar(name[i])]

HasPrefix(name, token) ==
    Len(name) >= Len(token) /\ SubSeq(name, 1, Len(token)) = token

HasSuffix(name, token) ==
    /\ Len(name) >= Len(token)
    /\ SubSeq(name, Len(name) - Len(token) + 1, Len(name)) = token

\* mutant: the comparison is case-sensitive
IsAlerting_CaseSensitive(name) ==
    HasPrefix(name, ErrorToken) \/ HasSuffix(name, ErrorToken)

\* a queue is alerting if its name, case-insensitively, starts or ends with
\* "error"
IsAlerting(name) ==
    HasPrefix(ToLower(name), ErrorToken) \/ HasSuffix(ToLower(name), ErrorToken)

\* the cooldown since the last raised alert has elapsed
CooldownElapsed(t, last) == t - last >= Cooldown

\* mutant: the cooldown is not applied
Decide_NoCooldown(snap, t, last) ==
    IF \E i \in 1..Len(snap) : IsAlerting(snap[i]) THEN "raise" ELSE "suppress"

\* evaluate(snapshot): raise if at least one queue is alerting and the
\* cooldown has elapsed, else suppress
Decide(snap, t, last) ==
    IF (\E i \in 1..Len(snap) : IsAlerting(snap[i])) /\ CooldownElapsed(t, last)
    THEN "raise" ELSE "suppress"

\* one evaluation of a sampled snapshot; raising sets lastAlertTimestamp to now
Evaluate ==
    /\ \E snap \in AlertSnapshots :
          /\ alertSnap' = snap
          /\ decision' = Decide(snap, now, lastAlert)
          /\ lastAlert' = IF Decide(snap, now, lastAlert) = "raise" THEN now
                          ELSE lastAlert
    /\ UNCHANGED now
    /\ UNCHANGED <<monitorVars, samplerVars>>

\* time passes
ClockTick ==
    /\ now < MaxTime
    /\ now' = now + 1
    /\ UNCHANGED <<lastAlert, decision, alertSnap>>
    /\ UNCHANGED <<monitorVars, samplerVars>>

AlertNext == Evaluate \/ ClockTick

AlertSpec == Init /\ [][AlertNext]_vars

(***************************************************************************)
(* Claims                                                                  *)
(***************************************************************************)

\* the state of a queue's task in the terms of the design's state machine
StatusOf(p) ==
    CASE p \in {"pending", "consume"} -> "Starting"
      [] p \in {"recv", "append"}     -> "Running"
      [] p = "sleep"                  -> "Retrying"
      [] OTHER                        -> "Stopped"

\* a goroutine was started for index t and has not returned
Live(t) == pc[t] \in {"consume", "recv", "append", "sleep"}

\* C1: a View() read of the message map never observes a buffer in a
\* partially-updated state.
C1_ViewNeverPartial == view # "partial"

\* C2: a failed existence check of one queue never prevents the task of a
\* queue with another name from being started and never ends it: the process
\* is never ended by queue smIdx's failed check while another queue's task is
\* still to be started or is live.
C2_TasksIndependent ==
    ~ /\ exited = "fatal"
      /\ loop = "declare"
      /\ \E j \in DOMAIN pc :
            /\ j # smIdx
            /\ queues[j] # queues[smIdx]
            /\ (pc[j] = "pending" \/ Live(j))

\* C3: a step in which a queue's passive existence check fails while the
\* channel stays usable puts that queue's task in Retrying (from where the
\* check is made again), never in Stopped.
C3_FailedCheckIsRetried ==
    [][LET i == smIdx IN
         (/\ loop = "declare" /\ i \in DOMAIN pc
          /\ exited' = "running" /\ channel' = "open"
          /\ pc[i] = "pending" /\ pc'[i] \notin {"pending", "consume"})
         => StatusOf(pc'[i]) = "Retrying"]_vars

\* C4: while the channel is open a task never stops: a failed subscription
\* attempt and an ended message stream both lead to the retry delay, and the
\* retry delay leads only to a new subscription attempt.
C4_OpenChannelRetries ==
    [][\A t \in DOMAIN pc :
          /\ (channel = "open" /\ pc[t] = "consume" /\ pc'[t] # "consume")
                => pc'[t] \in {"recv", "sleep"}
          /\ (pc[t] = "recv" /\ pc'[t] \notin {"recv", "append"})
                => pc'[t] = "sleep"
          /\ (pc[t] = "sleep" /\ pc'[t] # "sleep") => pc'[t] = "consume"
          /\ (channel = "open" /\ pc[t] # "stopped") => pc'[t] # "stopped"]_vars

\* C4 witness: with the channel open, a task that has received a message is
\* waiting out the retry delay after its stream ended.
C4_Witness ==
    \E t \in DOMAIN pc :
       /\ Running /\ channel = "open" /\ pc[t] = "sleep"
       /\ messages[queues[t]] # <<>>

\* C5 as stated: from the moment the channel is closed a task starts no
\* retry-delay wait and makes no further subscription attempt, and a stopped
\* task stays stopped.
C5_ClosedNeverWaits ==
    [][\A t \in DOMAIN pc :
          /\ channel = "closed" => ~(pc[t] # "sleep" /\ pc'[t] = "sleep")
          /\ channel = "closed" => ~(pc[t] = "sleep" /\ pc'[t] = "consume")
          /\ pc[t] = "stopped" => pc'[t] = "stopped"]_vars

\* C5 amended: a subscription attempt made on a closed channel stops the task
\* (it neither subscribes nor waits again); on a closed channel a retry delay
\* is only ever entered from an ended stream, never from a failed attempt;
\* and a stopped task stays stopped.
C5_ConfirmedClosedStops ==
    [][\A t \in DOMAIN pc :
          /\ (channel = "closed" /\ pc[t] = "consume" /\ pc'[t] # "consume")
                => pc'[t] = "stopped"
          /\ (channel = "closed" /\ pc[t] # "sleep" /\ pc'[t] = "sleep")
                => pc[t] = "recv"
          /\ pc[t] = "stopped" => pc'[t] = "stopped"]_vars

\* C5 witness: a task that had been receiving has stopped on the closed channel.
C5_Witness ==
    \E t \in DOMAIN pc :
       /\ pc[t] = "stopped" /\ channel = "closed"
       /\ messages[queues[t]] # <<>>

\* the bodies delivered on a name's subscriptions, formatted as stored
Formatted(n) == [i \in 1..Len(delivered[n]) |-> FormatMsg(n, delivered[n][i])]

\* C6: whenever no task is in the middle of appending to name n, the buffer
\* of n is exactly the messages delivered on n, in receipt order.
C6_BufferIsDelivered ==
    \A n \in QueueNames :
       (\A t \in DOMAIN pc : queues[t] = n => pc[t] # "append")
          => messages[n] = Formatted(n)

\* C7: a failed sampling call leaves the process running and the screen as it
\* was and leads to the 5-second wait, and that wait leads to the next
\* sampling call.
C7_FailedSampleRetries ==
    [][/\ (spc = "checkErr" /\ err # "nil")
            => (spc' = "sleepErr" /\ screen' = screen /\ exitCode' = -1)
       /\ spc = "sleepErr"
            => (spc' = "getQueues" /\ screen' = screen /\ exitCode' = -1)]_vars

\* C7 witness: after at least two consecutive failures the sampler is about
\* to sample again, with an earlier snapshot still on the screen.
C7_Witness ==
    /\ fails >= 2 /\ spc = "getQueues" /\ exitCode = -1
    /\ screen # <<>>

\* C8: getQueues returns an error for every response whose status is not 2xx.
C8_Non2xxIsFailure ==
    (spc = "checkErr" /\ status # 0 /\ ~Is2xx(status)) => err # "nil"

\* C9: every sampling call returns: a call in flight is eventually over.
C9_CallReturns == (spc = "awaiting") ~> (spc # "awaiting")

\* C10: once a consumer task has been started, no per-queue error ends the
\* process.
C10_NoFatalOnceStarted ==
    (\E t \in DOMAIN pc : pc[t] \notin {"pending", "skipped"}) => exited # "fatal"

\* C11: the event loop never blocks on broker I/O: while the process runs,
\* the loop is idle (waiting for a tick, key or quit event), never inside a
\* broker connect or a passive declare.
C11_LoopNeverInBrokerIO == Running => loop = "idle"

\* C12: quit reaches every consumer task: from the moment quit is handled a
\* task takes no step other than stopping (it neither finishes its retry
\* delay, nor subscribes, nor receives), and when the process has quit no
\* task is still live.
C12_QuitStopsTasks ==
    [][/\ quitting => \A t \in DOMAIN pc : pc'[t] # pc[t] => pc'[t] = "stopped"
       /\ exited' = "quit" => \A t \in DOMAIN pc : ~Live(t)']_vars

\* C13: after a successful sampling call the rows on the screen are exactly
\* the entries the call returned: one row per entry, in order, with that
\* entry's ready, unacknowledged and total counts, and nothing else.
C13_RowsAreSnapshot ==
    spc = "sleep" =>
       /\ Len(screen) = Len(sQueues)
       /\ \A i \in 1..Len(sQueues) :
             /\ screen[i].ready = sQueues[i].ready
             /\ screen[i].unacked = sQueues[i].unack
             /\ screen[i].total = sQueues[i].messages

\* C13 witness: a cycle that returned one queue has been rendered after an
\* earlier failure-free start (the screen holds that one row).
C13_Witness ==
    /\ spc = "sleep" /\ exitCode = -1
    /\ sQueues = <<QOrders>>
    /\ Len(screen) = 1 /\ screen[1].ready = 3

\* C15: the sampler process ends only through a failed startup step (load
\* configuration, connect, open channel), with a non-zero exit code, and
\* then no sampling call has been made and no row rendered.
C15_StartupFailureExits ==
    exitCode # -1 =>
       /\ exitCode # 0
       /\ spc \in {"loadConfig", "dial", "channel"}
       /\ status = 0 /\ fails = 0
       /\ screen = <<>>

\* C15 witness: opening the channel failed and the process has ended.
C15_Witness == exitCode = 1 /\ spc = "channel"

\* C14: once startMonitoring has been entered (the first confirmed Enter), no
\* step changes the list of monitored queues, and once monitoring is set no
\* step starts a consumer task: a queue without a task stays without one.
C14_TargetSetFixed ==
    [][/\ (monitoring \/ loop # "idle") => queues' = queues
       /\ monitoring =>
             /\ DOMAIN pc' = DOMAIN pc
             /\ \A t \in DOMAIN pc : ~Live(t) => ~Live(t)']_vars

\* C14 witness: monitoring runs on one queue while, after a later Space, two
\* list entries are selected.
C14_Witness ==
    /\ monitoring /\ Running
    /\ Len(queues) = 1
    /\ Cardinality(selected) = 2

\* C17: a task subscribes only right after a successful passive existence
\* check, on its first entry into Running and on every re-entry: every step
\* that brings a task to a subscription attempt is the successful existence
\* check of startMonitoring.
C17_CheckBeforeEverySubscribe ==
    [][\A t \in DOMAIN pc :
          (pc[t] # "consume" /\ pc'[t] = "consume")
             => (pc[t] = "pending" /\ loop = "declare" /\ smIdx = t)]_vars

\* C18: at most one live consumer task appends to the buffer of any queue
\* name.
C18_OneWriterPerKey ==
    \A t, u \in DOMAIN pc :
       (t # u /\ Live(t) /\ Live(u)) => queues[t] # queues[u]

\* C19: while monitoring is active and the program has not quit, a tick is
\* pending.
C19_TickNeverStops ==
    (Running /\ ~quitting /\ monitoring) => tickArmed

\* the number of steps a task in state p is away from having returned once
\* the channel is closed
StepsToStop(p) ==
    CASE p = "append"  -> 4
      [] p = "recv"    -> 3
      [] p = "sleep"   -> 2
      [] p = "consume" -> 1
      [] OTHER         -> 0

\* C20: once the channel is closed every consumer task terminates, whatever
\* it was doing: a live task can always take a step, each of its steps brings
\* it strictly closer to having returned (at most four steps: store, end of
\* stream, wake, failed Consume), and a task that has returned never runs
\* again, so it appends nothing more.
C20_ClosedChannelEndsTasks ==
    /\ [](\A t \in DOMAIN pc :
            (Running /\ channel = "closed" /\ Live(t)) => ENABLED Task(t))
    /\ [][\A t \in DOMAIN pc :
            /\ (channel = "closed" /\ pc'[t] # pc[t])
                  => StepsToStop(pc'[t]) < StepsToStop(pc[t])
            /\ pc[t] = "stopped" => (pc'[t] = "stopped" /\ got'[t] = got[t])]_vars

\* C20 in temporal form, which holds under FairSpec: on a closed channel a
\* live task leads to that task having returned or the process having ended.
C20_EventuallyStopped ==
    \A t \in TaskIds :
       (channel = "closed" /\ t \in DOMAIN pc /\ Live(t))
          ~> (~Running \/ (t \in DOMAIN pc /\ pc[t] = "stopped"))

\* C20 witness: the channel is closed and a task that was receiving has
\* terminated while another one is still waiting out its retry delay.
C20_Witness ==
    /\ Running /\ channel = "closed"
    /\ \E t, u \in DOMAIN pc :
          /\ pc[t] = "stopped" /\ messages[queues[t]] # <<>>
          /\ pc[u] = "sleep"

\* the names of a snapshot that start or end with "error" in any letter case,
\* read off the names themselves
StartsOrEndsWithError(name) ==
    \/ name = NameErrorQ
    \/ name = NamePayError

\* C16: an evaluation raises an alert if and only if some queue name of the
\* snapshot starts or ends, case-insensitively, with "error" and the cooldown
\* since the last raised alert has elapsed; raising sets the last-alert time
\* to now, suppressing leaves it.
C16_AlertIffErrorAndCooldown ==
    [][(decision' # decision \/ lastAlert' # lastAlert \/ alertSnap' # alertSnap)
         => /\ decision' = "raise"
                <=> /\ \E i \in 1..Len(alertSnap') : StartsOrEndsWithError(alertSnap'[i])
                    /\ now - lastAlert >= Cooldown
            /\ decision' = "raise" => lastAlert' = now
            /\ decision' # "raise" => lastAlert' = lastAlert]_vars

\* C16 witness: an alert was raised at some instant and a later snapshot
\* with an upper-case ERROR queue is suppressed within the cooldown.
C16_Witness ==
    /\ decision = "suppress"
    /\ alertSnap = <<NameOrders, NameErrorQ>>
    /\ lastAlert >= 0 /\ now - lastAlert < Cooldown /\ now > lastAlert

=============================================================================
